---- MODULE Spec2Model ----
(***************************************************************************)
(* Model of mergecounts/__main__.py: loading per-sample count files,       *)
(* merging them sequentially or by pairwise rounds, the shape check, the   *)
(* concordance test and the output write of run().                         *)
(*                                                                         *)
(* A pandas DataFrame is a record                                          *)
(*   [index : set of gene names, columns : sequence of column labels,      *)
(*    values : sequence of functions index -> count or NA]                 *)
(* so that column labels and column data are separate, as in pandas:       *)
(* values[i] is the data stored under the label columns[i].  Row order and *)
(* dtypes are pandas internals and are not modelled.  A sample name is a   *)
(* string, modelled as the sequence of its character codes, compared the   *)
(* way Python compares str.                                                *)
(***************************************************************************)
EXTENDS Integers, Sequences, FiniteSets

VARIABLES pc, subcommand, counts, dfs, expected_result_shape,
          num_iterations_needed, pbar, merge_calls, sequential_df, recursive_df,
          error, output

vars == <<pc, subcommand, counts, dfs, expected_result_shape,
          num_iterations_needed, pbar, merge_calls, sequential_df, recursive_df,
          error, output>>

(* ---------------------------- bounds ---------------------------------- *)

\* largest number of count files on the command line
MaxFiles == 3

\* gene names that may occur in a count file
Genes == {"g1", "g2"}

\* counts that may occur in a count file
Counts == {1, 2}

\* sample names (character-code sequences), in no particular order
AllNames == << <<2>>, <<1>>, <<1, 2>>, <<1, 1>>, <<2, 1>> >>

SampleNames == {AllNames[i] : i \in 1..MaxFiles}

(* ------------------------- values and helpers ------------------------- *)

\* Python's None, and a value that is not None (an Optional is a sequence of
\* at most one element)
None == <<>>
Some(x) == <<x>>
Get(opt) == opt[1]

\* pandas' missing value
NA == "NA"

Subcommands == {"recursive", "sequential", "concordance-test"}

OutputFileTypes == {"tsv", "csv", "hdf"}

\* a count file: the sample name derived from its file name, and its rows
\* (gene name -> count; gene names unique within a file)
CountFiles ==
    UNION {[sample_name : {s}, rows : [ks -> Counts]] :
              s \in SampleNames, ks \in (SUBSET Genes) \ {{}}}

\* command lines: one or more count files (nargs="+") with pairwise distinct
\* derived sample names
CountLists ==
    UNION {{l \in [1..n -> CountFiles] :
               \A i, j \in 1..n : i # j => l[i].sample_name # l[j].sample_name} :
           n \in 1..MaxFiles}

\* --limit-inputs: absent, or an int
LimitChoices == {None} \cup {Some(n) : n \in -1 .. MaxFiles}

Min(a, b) == IF a < b THEN a ELSE b
Max(a, b) == IF a > b THEN a ELSE b

\* Python's list[:n]
SliceTo(list, n) ==
    IF n >= 0 THEN SubSeq(list, 1, Min(n, Len(list)))
    ELSE SubSeq(list, 1, Max(0, Len(list) + n))

\* Python's truthiness of Optional[int]
Truthy(opt) == opt # None /\ Get(opt) # 0

\* str < str in Python: lexicographic on code points
RECURSIVE StrLess(_, _)
StrLess(a, b) ==
    IF Len(b) = 0 THEN FALSE
    ELSE IF Len(a) = 0 THEN TRUE
    ELSE IF a[1] # b[1] THEN a[1] < b[1]
    ELSE StrLess(Tail(a), Tail(b))

RECURSIVE Insert(_, _)
Insert(x, s) ==
    IF Len(s) = 0 THEN <<x>>
    ELSE IF StrLess(x, s[1]) THEN <<x>> \o s
    ELSE <<s[1]>> \o Insert(x, Tail(s))

\* Python's sorted() on a list of str
RECURSIVE Sorted(_)
Sorted(s) == IF Len(s) = 0 THEN <<>> ELSE Insert(s[1], Sorted(Tail(s)))

(* ----------------------------- DataFrames ----------------------------- *)

\* lines 99-101: one file read into a one-column frame indexed by gene name
ReadFile(f) ==
    [index |-> DOMAIN f.rows, columns |-> <<f.sample_name>>, values |-> <<f.rows>>]

\* lines 95-102: the loop over the (already truncated) file list
ReadAll(list) == [i \in 1..Len(list) |-> ReadFile(list[i])]

\* DataFrame.shape
Shape(df) == <<Cardinality(df.index), Len(df.columns)>>

\* a column's data re-indexed on a larger index, NA where the gene is absent
Reindex(col, index) == [g \in index |-> IF g \in DOMAIN col THEN col[g] ELSE NA]

\* one.merge(two, how="outer", left_index=True, right_index=True) for frames
\* without a common column label: union of the indexes, the left frame's
\* columns followed by the right frame's
Merge(one, two) ==
    LET index == one.index \cup two.index
    IN  [index   |-> index,
         columns |-> one.columns \o two.columns,
         values  |-> [i \in 1..Len(one.values) |-> Reindex(one.values[i], index)]
                     \o [i \in 1..Len(two.values) |-> Reindex(two.values[i], index)]]

\* a shape check that accepts every frame
ShapeOKAlways(result, expected) == TRUE

\* result.shape == expected_result_shape
ShapeOK(result, expected) == Shape(result) = expected

\* lines 130-136: the left fold of the sequential reducer
RECURSIVE FoldMerge(_, _)
FoldMerge(result, rest) ==
    IF Len(rest) = 0 THEN result
    ELSE FoldMerge(Merge(result, rest[1]), Tail(rest))

\* a total that counts only the pairs of each round (floor instead of ceil)
RECURSIVE IterationsNeededFloor(_)
IterationsNeededFloor(num_dfs) ==
    IF num_dfs > 1
    THEN LET amt == num_dfs \div 2 IN amt + IterationsNeededFloor(amt)
    ELSE 0

\* lines 170-175: the precomputed total of the progress bar
RECURSIVE IterationsNeeded(_)
IterationsNeeded(num_dfs) ==
    IF num_dfs > 1
    THEN LET amt == (num_dfs + 1) \div 2 IN amt + IterationsNeeded(amt)
    ELSE 0

\* a round that drops the odd leftover instead of carrying it forward
RECURSIVE PairUpDropLeftover(_)
PairUpDropLeftover(list) ==
    IF Len(list) = 0 THEN [merged_dfs |-> <<>>, merges |-> 0, updates |-> 0]
    ELSE IF Len(list) = 1
         THEN [merged_dfs |-> <<>>, merges |-> 0, updates |-> 1]
    ELSE LET rest == PairUpDropLeftover(SubSeq(list, 3, Len(list)))
         IN  [merged_dfs |-> <<Merge(list[1], list[2])>> \o rest.merged_dfs,
              merges     |-> rest.merges + 1,
              updates    |-> rest.updates + 1]

\* a round that carries every frame forward without merging any
PairUpNoMerge(list) ==
    [merged_dfs |-> list, merges |-> 0, updates |-> Len(list)]

\* lines 179-189: one round of the recursive reducer, the inner while loop;
\* merges counts the calls of merge, updates the calls of pbar.update()
RECURSIVE PairUp(_)
PairUp(list) ==
    IF Len(list) = 0 THEN [merged_dfs |-> <<>>, merges |-> 0, updates |-> 0]
    ELSE IF Len(list) = 1
         THEN [merged_dfs |-> <<list[1]>>, merges |-> 0, updates |-> 1]
    ELSE LET rest == PairUp(SubSeq(list, 3, Len(list)))
         IN  [merged_dfs |-> <<Merge(list[1], list[2])>> \o rest.merged_dfs,
              merges     |-> rest.merges + 1,
              updates    |-> rest.updates + 1]

\* line 196: result.columns = sorted(result.columns) assigns the sorted
\* labels to the frame's columns; the column data stay where they are
SetSortedColumns(result) == [result EXCEPT !.columns = Sorted(result.columns)]

\* pd.testing.assert_frame_equal(left, right) with its defaults: same index,
\* same column labels in the same order, same data column by column
FrameEqual(left, right) ==
    /\ left.index = right.index
    /\ left.columns = right.columns
    /\ left.values = right.values

(* ------------------------------- run() -------------------------------- *)

Init ==
    /\ pc = "start"
    /\ subcommand = "unparsed"
    /\ counts \in CountLists
    /\ dfs = <<>>
    /\ expected_result_shape = None
    /\ num_iterations_needed = 0
    /\ pbar = 0
    /\ merge_calls = 0
    /\ sequential_df = None
    /\ recursive_df = None
    /\ error = "none"
    /\ output = None

\* lines 240-244 and 91-104: read_counts(args.counts, ..., args.limit_inputs);
\* line 93 rebinds counts to the truncated list
ReadCounts(limit_inputs) ==
    /\ pc = "start"
    /\ counts' = IF Truthy(limit_inputs) THEN SliceTo(counts, Get(limit_inputs))
                 ELSE counts
    /\ dfs' = ReadAll(counts')
    /\ pc' = "loaded"
    /\ UNCHANGED <<subcommand, expected_result_shape, num_iterations_needed, pbar,
                   merge_calls, sequential_df, recursive_df, error, output>>

\* lines 246-250: dispatch on args.subcommand
Dispatch(cmd) ==
    /\ pc = "loaded"
    /\ subcommand' = cmd
    /\ pc' = IF cmd = "recursive" THEN "recursive" ELSE "sequential"
    /\ UNCHANGED <<counts, dfs, expected_result_shape,
                   num_iterations_needed, pbar, merge_calls, sequential_df,
                   recursive_df, error, output>>

\* a sequential reducer whose result is always written
AfterSequentialWrite == "write"

\* where the sequential reducer returns to: line 220 or line 252
AfterSequential == IF subcommand = "concordance-test" THEN "recursive" ELSE "write"

\* where the recursive reducer returns to: line 222 or line 252
AfterRecursive == IF subcommand = "concordance-test" THEN "assert" ELSE "write"

\* lines 127 and 165: (dfs[0].shape[0], num_dfs)
ExpectedResultShape(list) == <<Shape(list[1])[1], Len(list)>>

\* lines 107-143
JoinDataframesSequentially ==
    /\ pc = "sequential"
    /\ IF Len(dfs) <= 0
       THEN /\ error' = "ValueError"
            /\ pc' = "failed"
            /\ UNCHANGED <<expected_result_shape, sequential_df>>
       ELSE LET result == FoldMerge(dfs[1], Tail(dfs))
            IN  /\ expected_result_shape' = Some(ExpectedResultShape(dfs))
                /\ IF ~ShapeOK(result, ExpectedResultShape(dfs))
                   THEN /\ error' = "ShapeMismatch"
                        /\ pc' = "failed"
                        /\ UNCHANGED sequential_df
                   ELSE /\ sequential_df' = Some(result)
                        /\ pc' = AfterSequential
                        /\ UNCHANGED error
    /\ UNCHANGED <<subcommand, counts, dfs, num_iterations_needed,
                   pbar, merge_calls, recursive_df, output>>

\* lines 161-177: the entry of the recursive reducer
JoinDataframesRecursivelyBegin ==
    /\ pc = "recursive"
    /\ IF Len(dfs) <= 0
       THEN /\ error' = "ValueError"
            /\ pc' = "failed"
            /\ UNCHANGED <<expected_result_shape, num_iterations_needed>>
       ELSE /\ expected_result_shape' = Some(ExpectedResultShape(dfs))
            /\ num_iterations_needed' = IterationsNeeded(Len(dfs))
            /\ pc' = "rounds"
            /\ UNCHANGED error
    /\ UNCHANGED <<subcommand, counts, dfs, pbar, merge_calls,
                   sequential_df, recursive_df, output>>

\* lines 178-190: one pass of the outer while loop
RecursiveRound ==
    /\ pc = "rounds"
    /\ Len(dfs) > 1
    /\ LET round == PairUp(dfs)
       IN  /\ dfs' = round.merged_dfs
           /\ pbar' = pbar + round.updates
           /\ merge_calls' = merge_calls + round.merges
    /\ UNCHANGED <<pc, subcommand, counts, expected_result_shape,
                   num_iterations_needed, sequential_df, recursive_df, error,
                   output>>

\* lines 192-203: after the loop
JoinDataframesRecursivelyEnd ==
    /\ pc = "rounds"
    /\ ~(Len(dfs) > 1)
    /\ IF ~(Len(dfs) = 1)
       THEN /\ error' = "MathWasIncorrect"
            /\ pc' = "failed"
            /\ UNCHANGED recursive_df
       ELSE LET result == SetSortedColumns(dfs[1])
            IN  IF ~ShapeOK(result, Get(expected_result_shape))
                THEN /\ error' = "ShapeMismatch"
                     /\ pc' = "failed"
                     /\ UNCHANGED recursive_df
                ELSE /\ recursive_df' = Some(result)
                     /\ pc' = AfterRecursive
                     /\ UNCHANGED error
    /\ UNCHANGED <<subcommand, counts, dfs, expected_result_shape,
                   num_iterations_needed, pbar, merge_calls, sequential_df, output>>

\* line 223
AssertFrameEqual ==
    /\ pc = "assert"
    /\ IF FrameEqual(Get(sequential_df), Get(recursive_df))
       THEN pc' = "done" /\ UNCHANGED error
       ELSE pc' = "failed" /\ error' = "AssertionError"
    /\ UNCHANGED <<subcommand, counts, dfs, expected_result_shape,
                   num_iterations_needed, pbar, merge_calls, sequential_df,
                   recursive_df, output>>

\* the frame args.func(dfs) returned, line 250
Result == IF subcommand = "recursive" THEN recursive_df ELSE sequential_df

\* lines 252-268
WriteOutput(output_file_type) ==
    /\ pc = "write"
    /\ output_file_type \in OutputFileTypes
    /\ output' = Some(Get(Result))
    /\ pc' = "done"
    /\ UNCHANGED <<subcommand, counts, dfs, expected_result_shape,
                   num_iterations_needed, pbar, merge_calls, sequential_df,
                   recursive_df, error>>

Next ==
    \/ \E limit \in LimitChoices : ReadCounts(limit)
    \/ \E cmd \in Subcommands : Dispatch(cmd)
    \/ JoinDataframesSequentially
    \/ JoinDataframesRecursivelyBegin
    \/ RecursiveRound
    \/ JoinDataframesRecursivelyEnd
    \/ AssertFrameEqual
    \/ \E t \in OutputFileTypes : WriteOutput(t)

Spec == Init /\ [][Next]_vars

(* ------------------------------ claims -------------------------------- *)

\* the tables handed to the reducers (counts is the truncated list once
\* read_counts has run)
Inputs == ReadAll(counts)

Loaded == pc # "start"

SameKeySets ==
    LET inputs == Inputs
    IN  \A i \in 1..Len(inputs) : inputs[i].index = inputs[1].index

Range(s) == {s[i] : i \in DOMAIN s}

\* the (key, column) -> value content of a frame, column order ignored
Content(df) ==
    [index |-> df.index,
     names |-> Range(df.columns),
     cells |-> {<<g, df.columns[i], df.values[i][g]>> :
                   g \in df.index, i \in 1..Len(df.columns)}]

BothReturned == sequential_df # None /\ recursive_df # None

\* C1: on inputs with identical key sets, the sequential and the recursive
\* result have the same key set, the same column names and the same value
\* in every (key, column) cell.
C1_SameContent ==
    (Loaded /\ SameKeySets /\ BothReturned)
        => Content(Get(sequential_df)) = Content(Get(recursive_df))

\* C2: on inputs with identical key sets, the recursive result has its
\* columns in lexicographic order of sample name and the column named s
\* holds the counts of the input table of sample s.
C2_CanonicalLayout ==
    (Loaded /\ SameKeySets /\ recursive_df # None)
        => LET r == Get(recursive_df)
           IN  /\ r.columns = Sorted(r.columns)
               /\ \A i \in 1..Len(Inputs) :
                     \E c \in 1..Len(r.columns) :
                        /\ r.columns[c] = Inputs[i].columns[1]
                        /\ \A g \in Inputs[i].index :
                              r.values[c][g] = Inputs[i].values[1][g]

\* C3: a reducer never returns a frame whose shape differs from (rows of the
\* first input, number of inputs), and on inputs with identical key sets no
\* reducer fails the shape check.
C3_ShapeOfResult ==
    Loaded =>
        /\ sequential_df # None
              => Shape(Get(sequential_df)) = <<Cardinality(Inputs[1].index), Len(Inputs)>>
        /\ recursive_df # None
              => Shape(Get(recursive_df)) = <<Cardinality(Inputs[1].index), Len(Inputs)>>
        /\ SameKeySets => error # "ShapeMismatch"
        /\ (SameKeySets /\ Len(Inputs) >= 1 /\ pc \in {"write", "assert", "done"})
              => \/ sequential_df # None
                 \/ recursive_df # None

C3_Witness ==
    /\ pc = "assert"
    /\ BothReturned
    /\ SameKeySets
    /\ Len(Inputs) = 3
    /\ Shape(Get(recursive_df)) = <<2, 3>>
    /\ Shape(Get(sequential_df)) = <<2, 3>>

\* the columns of a working list, left to right
RECURSIVE ColumnsOf(_)
ColumnsOf(list) ==
    IF Len(list) = 0 THEN <<>> ELSE list[1].columns \o ColumnsOf(Tail(list))

RECURSIVE ValuesOf(_)
ValuesOf(list) ==
    IF Len(list) = 0 THEN <<>> ELSE list[1].values \o ValuesOf(Tail(list))

\* C4: before and after every round of the recursive reducer the working
\* list holds each input's column exactly once, in input order, with the
\* input's counts (and NA only for genes the input lacks).
C4_NothingDropped ==
    pc = "rounds" =>
        LET inputs == Inputs
            values == ValuesOf(dfs)
        IN  /\ ColumnsOf(dfs) = [i \in 1..Len(inputs) |-> inputs[i].columns[1]]
            /\ Len(values) = Len(inputs)
            /\ \A i \in 1..Len(inputs) :
                  \A g \in DOMAIN values[i] :
                     values[i][g] =
                        IF g \in inputs[i].index THEN inputs[i].values[1][g] ELSE NA

\* an odd leftover has been carried forward by the first of two rounds
C4_Witness ==
    /\ pc = "rounds"
    /\ Len(Inputs) = 3
    /\ Len(dfs) = 2
    /\ Len(dfs[1].columns) = 2
    /\ dfs[2] = Inputs[3]

\* C5: with two or more inputs whose key sets are not all identical, no
\* reducer returns a table (each fails the shape check).
C5_AnyDifferenceDetected ==
    (Loaded /\ Len(Inputs) >= 2 /\ ~SameKeySets)
        => /\ sequential_df = None
           /\ recursive_df = None
           /\ pc \notin {"write", "assert", "done"}

\* C6: the output is written only by the recursive and sequential
\* subcommands, only the table their reducer returned after it passed the
\* shape check; a run that ended in an error, and a concordance-test run,
\* has written nothing.
C6_WriteOnlyAfterCheck ==
    /\ output # None =>
          /\ subcommand \in {"recursive", "sequential"}
          /\ error = "none"
          /\ Result # None
          /\ Get(output) = Get(Result)
          /\ Shape(Get(output)) = <<Cardinality(Inputs[1].index), Len(Inputs)>>
    /\ (error # "none" \/ subcommand = "concordance-test") => output = None

C6_Witness ==
    /\ pc = "done"
    /\ output # None
    /\ subcommand = "sequential"
    /\ Len(Inputs) = 3

\* C7: when both reducers succeeded, the concordance test reports a mismatch
\* exactly when the two results differ in (key, column) -> value content.
C7_MismatchIffContentDiffers ==
    (pc \in {"done", "failed"} /\ subcommand = "concordance-test" /\ BothReturned)
        => ((error = "AssertionError")
               <=> (Content(Get(sequential_df)) # Content(Get(recursive_df))))

\* C8: a limit N with 0 <= N < K makes read_counts hand over exactly the
\* first N of the K inputs, in order.
C8_LimitTakesFirstN ==
    [][\A n \in 0..MaxFiles :
          (n < Len(counts) /\ ReadCounts(Some(n)))
              => dfs' = ReadAll(SubSeq(counts, 1, n))]_vars

LoopFinished == pc = "rounds" /\ Len(dfs) <= 1

C10_RoundsConverge ==
    [][/\ (pc = "rounds" /\ pc' = "rounds")
            => /\ Len(dfs) > 1
               /\ Len(dfs') = (Len(dfs) + 1) \div 2
               /\ Len(dfs') < Len(dfs)
               /\ Len(dfs') >= 1
       /\ (pc = "rounds" /\ pc' # "rounds") => Len(dfs) = 1
       /\ error' # "MathWasIncorrect"]_vars

C10_Witness ==
    /\ pc \in {"write", "assert"}
    /\ recursive_df # None
    /\ Len(Inputs) = 3
    /\ pbar = 3

====
